---- MODULE Spec2Model ----
(***************************************************************************)
(* Pattern aggregation and generalization engine of the skill-refinement   *)
(* scripts: scripts/aggregate_patterns.py (PatternAggregator) and          *)
(* scripts/common/persistence.py (RefinementPersistence).                  *)
(*                                                                         *)
(* The state is the content of the two documents the engine keeps under    *)
(* the user refinements directory: aggregated-patterns.md (the pattern     *)
(* store) and generalization-queue.md (the queue).  Every operation loads  *)
(* the store from the document, works on the loaded list and rewrites the  *)
(* whole document, so the documents are the only state that survives an    *)
(* operation.                                                              *)
(*                                                                         *)
(* Text is a sequence of tokens (an atomic run of characters); a substring *)
(* test is a test for a contiguous run of tokens.                          *)
(***************************************************************************)
EXTENDS Integers, Sequences, FiniteSets, TLC

VARIABLES
    store,      \* aggregated-patterns.md: the entry blocks, in document order
    queue,      \* generalization-queue.md: [entries, tail]
    lastOp      \* the last operation called, its arguments and what it returned

vars == <<store, queue, lastOp>>

----------------------------------------------------------------------------
(* Bounds of the model *)

MaxPatternId == 3
MaxQueueLen == 3

----------------------------------------------------------------------------
(* Program constants *)

\* aggregate_patterns.py:40 and persistence.py:24
GENERALIZATION_THRESHOLD == 2

\* aggregate_patterns.py:43, in thousandths (0.6)
SIMILARITY_THRESHOLD == 600

\* PatternStatus, models.py:49-55
TRACKING == "tracking"
READY == "ready-for-generalization"
GENERALIZED == "generalized"
DISMISSED == "dismissed"
PatternStatus == {TRACKING, READY, GENERALIZED, DISMISSED}

\* The status markers as the source files spell them (aggregate_patterns.py:
\* 473-478, persistence.py:406): each is a string of three or four characters,
\* written here character by character with the code point of each.
StatusIcons ==
    [s \in PatternStatus |->
        CASE s = TRACKING    -> <<"U+00E2", "U+0161", "U+00AA">>
          [] s = READY       -> <<"U+00F0", "U+0178", "U+0178", "U+00A1">>
          [] s = GENERALIZED -> <<"U+00E2", "U+0153", "U+2026">>
          [] s = DISMISSED   -> <<"U+00E2", "U+203A", "U+201D">>]

\* The character class of the header regex (aggregate_patterns.py:327,
\* persistence.py:444): a class matches ONE character, any of those listed.
HeaderClass ==
    {"U+00E2", "U+0161", "U+00AA", "U+00F0", "U+0178", "U+00A1",
     "U+0153", "U+2026", "U+203A", "U+201D"}

----------------------------------------------------------------------------
(* Text helpers *)

Range(s) == {s[i] : i \in DOMAIN s}

\* Python's `a in b` for strings
IsSubstr(a, b) ==
    \E i \in 0..(Len(b) - Len(a)) : SubSeq(b, i + 1, i + Len(a)) = a

\* The positions of the separators of s, with the two ends
Cuts(s, seps) == {0, Len(s) + 1} \cup {i \in DOMAIN s : s[i] \in seps}

\* str.split() on the separators: the non-empty runs between them, as a set
WordSet(s, seps) ==
    {w \in {SubSeq(s, a + 1, b - 1) : a \in Cuts(s, seps), b \in Cuts(s, seps)} :
        /\ w # <<>>
        /\ \A i \in DOMAIN w : w[i] \notin seps}

\* the same runs, first to last
RECURSIVE SplitOn(_, _)
SplitOn(s, seps) ==
    IF s = <<>> THEN <<>>
    ELSE IF s[1] \in seps THEN SplitOn(Tail(s), seps)
    ELSE LET n == CHOOSE k \in 1..Len(s) :
                    /\ \A i \in 1..k : s[i] \notin seps
                    /\ (k = Len(s) \/ s[k + 1] \in seps)
         IN  <<SubSeq(s, 1, n)>> \o SplitOn(SubSeq(s, n + 1, Len(s)), seps)

Take(s, n) == SubSeq(s, 1, IF Len(s) < n THEN Len(s) ELSE n)

RECURSIVE Join(_, _)
Join(ws, sep) ==
    IF ws = <<>> THEN <<>>
    ELSE IF Len(ws) = 1 THEN ws[1]
    ELSE ws[1] \o <<sep>> \o Join(Tail(ws), sep)

Max(S) == CHOOSE x \in S : \A y \in S : y <= x

----------------------------------------------------------------------------
(* The inputs: Refinement records (models.py:203-239) *)

Skills == {"s1", "s2"}
RefIds == {"R1", "R2"}
Targets == {<<>>, <<"hooks">>, <<"hooks", "/", "x">>}
Expected == {<<"allow", " ", "tests">>}
Actual == {<<"blocks", " ", "tests">>}
Reasons == {"not applicable"}

\* tokens of more than three characters (len(w) > 3, aggregate_patterns.py:304)
LongTokens == {"allow", "tests", "hooks", "blocks"}

\* category and project as they come together in the inputs: a hook
\* refinement reported from project p1, a content refinement with no project
Origins == {[category |-> "hook", project |-> "p1"], [category |-> "content", project |-> ""]}

Refinements ==
    {[id |-> i, skill |-> s, category |-> o.category, target_section |-> t,
      expected_behavior |-> e, actual_behavior |-> a, project |-> o.project] :
        i \in RefIds, s \in Skills, t \in Targets, e \in Expected, a \in Actual,
        o \in Origins}

NoRef ==
    [id |-> "", skill |-> "", category |-> "", target_section |-> <<>>,
     expected_behavior |-> <<>>, actual_behavior |-> <<>>, project |-> ""]

Whitespace == {" "}

----------------------------------------------------------------------------
(* The pattern document: parsing *)

\* A header line is found only where ONE character of the class stands between
\* "### " and " PATTERN-" (aggregate_patterns.py:327, persistence.py:444).
Recognised(e) == Len(e.icon) = 1 /\ e.icon[1] \in HeaderClass

HeaderIdx(doc) == {i \in DOMAIN doc : Recognised(doc[i])}

\* A block runs to the next header the regex finds, or to the end of the text:
\* entries whose header it does not find are text of the block before them.
BlockEnd(doc, i) ==
    IF \E j \in HeaderIdx(doc) : j > i
    THEN (CHOOSE j \in HeaderIdx(doc) : j > i /\ \A k \in HeaderIdx(doc) : k > i => j <= k) - 1
    ELSE Len(doc)

\* re.search in the block: the first line of that field the block holds. An
\* empty list has no line (or a line the regex does not match).
FirstSkills(doc, i) ==
    LET ks == {k \in i..BlockEnd(doc, i) : doc[k].skills # <<>>}
    IN  IF ks = {} THEN <<>> ELSE doc[CHOOSE k \in ks : \A l \in ks : k <= l].skills

FirstRefs(doc, i) ==
    LET ks == {k \in i..BlockEnd(doc, i) : doc[k].refs # <<>>}
    IN  IF ks = {} THEN <<>> ELSE doc[CHOOSE k \in ks : \A l \in ks : k <= l].refs

FirstProjects(doc, i) ==
    LET ks == {k \in i..BlockEnd(doc, i) : doc[k].projects # <<>>}
    IN  IF ks = {} THEN <<>> ELSE doc[CHOOSE k \in ks : \A l \in ks : k <= l].projects

\* The Count line: the first one of the block, 1 when the block has none. An
\* entry with count 0 stands for an entry that has no Count line.
FirstCount(doc, i) ==
    LET ks == {k \in i..BlockEnd(doc, i) : doc[k].count # 0}
    IN  IF ks = {} THEN 1 ELSE doc[CHOOSE k \in ks : \A l \in ks : k <= l].count

\* The description runs to the next "**": the entry's own Projects or
\* Refinement IDs line when it has one, else through the rule that ends the
\* entry and the header of the entry after it, up to its "- **First seen".
ParsedDescription(doc, i) ==
    IF doc[i].projects # <<>> \/ doc[i].refs # <<>> THEN doc[i].desc
    ELSE IF i < BlockEnd(doc, i)
         THEN doc[i].desc \o <<" ", "---", " ", "###", " ">> \o doc[i + 1].icon
                  \o <<" ", "PATTERN-n:", " ">> \o doc[i + 1].name \o <<" ", "-">>
         ELSE doc[i].desc \o <<" ", "---">>

\* status_map.get(status_icon, TRACKING), aggregate_patterns.py:332-338
IconStatus(icon) ==
    IF \E s \in PatternStatus : StatusIcons[s] = icon
    THEN CHOOSE s \in PatternStatus : StatusIcons[s] = icon
    ELSE TRACKING

ParsePattern(doc, i) ==
    [id |-> doc[i].id,
     name |-> doc[i].name,
     desc |-> ParsedDescription(doc, i),
     skills |-> FirstSkills(doc, i),
     refs |-> FirstRefs(doc, i),
     projects |-> FirstProjects(doc, i),
     count |-> FirstCount(doc, i),
     status |-> IconStatus(doc[i].icon),
     notes |-> <<>>]

RECURSIVE LoadFrom(_, _)
LoadFrom(doc, i) ==
    IF i > Len(doc) THEN <<>>
    ELSE (IF Recognised(doc[i]) THEN <<ParsePattern(doc, i)>> ELSE <<>>)
         \o LoadFrom(doc, i + 1)

\* PatternAggregator._load_patterns
LoadPatterns(doc) == LoadFrom(doc, 1)

----------------------------------------------------------------------------
(* The pattern document: writing *)

\* PatternAggregator._format_pattern: what a written entry holds. Notes are
\* not among the lines written.
FormatPattern(p) ==
    [icon |-> StatusIcons[p.status],
     id |-> p.id,
     name |-> p.name,
     count |-> p.count,
     status |-> p.status,
     skills |-> p.skills,
     desc |-> p.desc,
     projects |-> p.projects,
     refs |-> p.refs]

RECURSIVE FormatWhere(_, _)
FormatWhere(ps, st) ==
    IF ps = <<>> THEN <<>>
    ELSE (IF ps[1].status = st THEN <<FormatPattern(ps[1])>> ELSE <<>>)
         \o FormatWhere(Tail(ps), st)

\* PatternAggregator._save_patterns: the whole document, by status section
SavePatterns(ps) ==
    FormatWhere(ps, READY) \o FormatWhere(ps, TRACKING)
        \o FormatWhere(ps, GENERALIZED) \o FormatWhere(ps, DISMISSED)

\* get_pattern_id: one more than the largest PATTERN-n in the document's text
GetPatternId(doc) ==
    IF doc = <<>> THEN 1 ELSE Max({doc[i].id : i \in DOMAIN doc}) + 1

----------------------------------------------------------------------------
(* Pattern matching (aggregate_patterns.py:179-241) *)

\* set(expected.lower().split() + actual.lower().split())
RefWords(r) ==
    WordSet(r.expected_behavior, Whitespace) \cup WordSet(r.actual_behavior, Whitespace)

\* a Pattern that carried the category of every refinement
PatternAlwaysHasCategory == TRUE

\* hasattr(pattern, 'category'): Pattern (models.py:295-313) has no such field
PatternHasCategory == FALSE

Largest(a, b, c) == Max({a, b, c})

\* _calculate_similarity, in thousandths; min(score, 1.0) at the end
CalculateSimilarity(r, p) ==
    LET rw == RefWords(r)
        pw == WordSet(p.desc, Whitespace)
        both == rw \cap pw
        skillPart == IF r.skill \in Range(p.skills) THEN 300 ELSE 0
        targetPart == IF r.target_section # <<>> /\ IsSubstr(r.target_section, p.desc)
                      THEN 300 ELSE 0
        categoryPart == IF PatternHasCategory THEN 200 ELSE 0
        wordPart == IF both # {}
                    THEN (200 * Cardinality(both))
                            \div Largest(Cardinality(rw), Cardinality(pw), 1)
                    ELSE 0
        score == skillPart + targetPart + categoryPart + wordPart
    IN  IF score > 1000 THEN 1000 ELSE score

\* the comparison with the threshold made strict
MatchesStrictly(r, p) ==
    /\ p.status \notin {GENERALIZED, DISMISSED}
    /\ CalculateSimilarity(r, p) > SIMILARITY_THRESHOLD

\* What the loop of _find_matching_pattern does with one pattern: both tests
\* (the section test and the content test) compare the same score.
Matches(r, p) ==
    /\ p.status \notin {GENERALIZED, DISMISSED}
    /\ CalculateSimilarity(r, p) >= SIMILARITY_THRESHOLD

\* _find_matching_pattern: the index of the first match in list order, 0 if none
FindMatchingPattern(r, ps) ==
    IF \E i \in DOMAIN ps : Matches(r, ps[i])
    THEN CHOOSE i \in DOMAIN ps :
            Matches(r, ps[i]) /\ \A j \in DOMAIN ps : Matches(r, ps[j]) => i <= j
    ELSE 0

----------------------------------------------------------------------------
(* Pattern creation and update (aggregate_patterns.py:247-312) *)

\* [w for w in expected.split() if len(w) > 3][:3]
RECURSIVE LongWords(_)
LongWords(ws) ==
    IF ws = <<>> THEN <<>>
    ELSE (IF Len(ws[1]) > 3 \/ \E i \in DOMAIN ws[1] : ws[1][i] \in LongTokens
          THEN <<ws[1]>> ELSE <<>>)
         \o LongWords(Tail(ws))

\* _generate_pattern_name: category, two words of the target, three long words
\* of the expected text; the first five, joined by "-"
GeneratePatternName(r) ==
    LET targetWords == Take(SplitOn(r.target_section, {"/", "-", " "}), 2)
        expectedWords == Take(LongWords(SplitOn(r.expected_behavior, Whitespace)), 3)
        words == Take(<<<<r.category>>>> \o targetWords \o expectedWords, 5)
    IN  Join(words, "-")

\* _create_pattern. expected_behavior[:100] keeps the whole of a text of up to
\* 100 characters, as every text of Expected is.
CreatePattern(r, doc) ==
    [id |-> GetPatternId(doc),
     name |-> GeneratePatternName(r),
     desc |-> r.target_section \o <<":", " ">> \o r.expected_behavior,
     skills |-> <<r.skill>>,
     refs |-> <<r.id>>,
     projects |-> IF r.project # "" THEN <<r.project>> ELSE <<>>,
     count |-> 1,
     status |-> TRACKING,
     notes |-> <<>>]

\* _update_pattern
UpdatePattern(p, r) ==
    [p EXCEPT
        !.count = p.count + 1,
        !.refs = IF r.id \notin Range(p.refs) THEN Append(p.refs, r.id) ELSE p.refs,
        !.skills = IF r.skill \notin Range(p.skills)
                   THEN Append(p.skills, r.skill) ELSE p.skills,
        !.projects = IF r.project # "" /\ r.project \notin Range(p.projects)
                     THEN Append(p.projects, r.project) ELSE p.projects]

----------------------------------------------------------------------------
(* The generalization queue document (aggregate_patterns.py:507-572) *)

\* _format_queue_entry: 'High' if pattern.count >= 3 else 'Medium'
HighPriorityCount == 3

\* the Priority line of an entry, written from the count the pattern had when
\* the entry was formatted
Priority(e) == IF e.count >= HighPriorityCount THEN "High" ELSE "Medium"

\* _format_queue_entry: the header carries the id, the Priority line the count
QueueEntry(p) == [id |-> p.id, count |-> p.count, skills |-> p.skills]

QueueIds(q) == {q.entries[i].id : i \in DOMAIN q.entries}

\* _add_to_generalization_queue: nothing when the id occurs in the text, else
\* the entry goes right after the "## Ready for Review" header. Ids are
\* written with three digits, so within MaxPatternId an id occurs in the
\* text exactly when an entry of that id does.
AddToQueue(q, p) ==
    IF p.id \in QueueIds(q) THEN q
    ELSE [q EXCEPT !.entries = <<QueueEntry(p)>> \o @]

RECURSIVE WithoutId(_, _)
WithoutId(es, id) ==
    IF es = <<>> THEN <<>>
    ELSE (IF es[1].id = id THEN <<>> ELSE <<es[1]>>) \o WithoutId(Tail(es), id)

\* _remove_from_queue: every match of "### id: ...", each up to the next
\* "### PATTERN-" header or, for the last entry, to the end of the text, which
\* takes the sections that follow the entries with it.
RemoveFromQueue(q, id) ==
    [entries |-> WithoutId(q.entries, id),
     tail |-> IF q.entries # <<>> /\ q.entries[Len(q.entries)].id = id
              THEN FALSE ELSE q.tail]

\* _get_generalization_queue_template (persistence.py:541-556), written by
\* ensure_user_refinements_dir when the file is missing
QueueTemplate == [entries |-> <<>>, tail |-> TRUE]

----------------------------------------------------------------------------
(* RefinementPersistence (persistence.py:195-318, 404-471) *)

\* _parse_patterns_file: the same header regex; the status comes from the
\* Status line, the skills from the entry's own list, projects are not read.
PersistenceParse(doc, i) ==
    [id |-> doc[i].id,
     name |-> doc[i].name,
     desc |-> ParsedDescription(doc, i),
     skills |-> doc[i].skills,
     refs |-> FirstRefs(doc, i),
     projects |-> <<>>,
     count |-> FirstCount(doc, i),
     status |-> doc[i].status,
     notes |-> <<>>]

RECURSIVE PersistenceLoadFrom(_, _)
PersistenceLoadFrom(doc, i) ==
    IF i > Len(doc) THEN <<>>
    ELSE (IF Recognised(doc[i]) THEN <<PersistenceParse(doc, i)>> ELSE <<>>)
         \o PersistenceLoadFrom(doc, i + 1)

\* RefinementPersistence.load_patterns
PersistenceLoad(doc) == PersistenceLoadFrom(doc, 1)

\* pattern.name.lower().replace(" ", "-")
NameKey(name) == [i \in DOMAIN name |-> IF name[i] = " " THEN "-" ELSE name[i]]

\* RefinementPersistence._find_matching_pattern: skill and section against the
\* name; proposed_changes is empty on every loaded or created pattern, so the
\* content branch never runs. No status is skipped.
PersistenceMatches(r, p) ==
    r.skill \in Range(p.skills) /\ IsSubstr(r.target_section, NameKey(p.name))

PersistenceFind(r, ps) ==
    IF \E i \in DOMAIN ps : PersistenceMatches(r, ps[i])
    THEN CHOOSE i \in DOMAIN ps :
            PersistenceMatches(r, ps[i])
                /\ \A j \in DOMAIN ps : PersistenceMatches(r, ps[j]) => i <= j
    ELSE 0

\* _generate_pattern_name: the last three words of the target, capitalised and
\* joined by spaces (the only reader of the name lower-cases it)
PersistencePatternName(r) ==
    LET parts == SplitOn(r.target_section, {"/", "-", " "})
        from == IF Len(parts) > 3 THEN Len(parts) - 2 ELSE 1
    IN  Join(SubSeq(parts, from, Len(parts)), " ")

\* _generate_pattern_description; root_cause is empty on a Refinement built
\* from these fields, so the expected text follows
PersistenceDescription(r) ==
    <<r.category, " ", "modification", " ", "for", " ", r.skill, ":", " ">>
        \o r.expected_behavior

\* the update branch of _update_pattern_tracking
PersistenceUpdate(p, r) ==
    LET n == p.count + 1
    IN  [p EXCEPT
            !.count = n,
            !.refs = Append(p.refs, r.id),
            !.projects = IF r.project \notin Range(p.projects)
                         THEN Append(p.projects, r.project) ELSE p.projects,
            !.status = IF n >= GENERALIZATION_THRESHOLD THEN READY ELSE p.status]

\* the create branch of _update_pattern_tracking
PersistenceCreate(r, doc) ==
    [id |-> GetPatternId(doc),
     name |-> PersistencePatternName(r),
     desc |-> PersistenceDescription(r),
     skills |-> <<r.skill>>,
     refs |-> <<r.id>>,
     projects |-> IF r.project # "" THEN <<r.project>> ELSE <<>>,
     count |-> 1,
     status |-> TRACKING,
     notes |-> <<>>]

\* _format_pattern_entry: no Projects line
PersistenceFormat(p) == [FormatPattern(p) EXCEPT !.projects = <<>>]

RECURSIVE PersistenceFormatWhere(_, _)
PersistenceFormatWhere(ps, st) ==
    IF ps = <<>> THEN <<>>
    ELSE (IF ps[1].status = st THEN <<PersistenceFormat(ps[1])>> ELSE <<>>)
         \o PersistenceFormatWhere(Tail(ps), st)

\* RefinementPersistence._save_patterns: ready, tracking, generalized
PersistenceSave(ps) ==
    PersistenceFormatWhere(ps, READY) \o PersistenceFormatWhere(ps, TRACKING)
        \o PersistenceFormatWhere(ps, GENERALIZED)

\* RefinementPersistence._add_to_generalization_queue: no test for an entry
\* already there
PersistenceAddToQueue(q, p) == [q EXCEPT !.entries = <<QueueEntry(p)>> \o @]

----------------------------------------------------------------------------
(* The lifecycle operations (aggregate_patterns.py:62-173) *)

PatternIds == 1..MaxPatternId

Op(name, r, pid, ok, out, matched) ==
    [op |-> name, ref |-> r, pid |-> pid, ok |-> ok, out |-> out, matched |-> matched]

\* the threshold test with the comparison off by one
PromotesAbove(p) == p.count > GENERALIZATION_THRESHOLD /\ p.status # GENERALIZED

\* the threshold test without the comparison of the count
PromotesAny(p) == p.status # GENERALIZED

\* process_new_refinement, lines 86-90: the threshold test on the pattern
\* matched or created
Promotes(p) == p.count >= GENERALIZATION_THRESHOLD /\ p.status # GENERALIZED

\* PatternAggregator.process_new_refinement
ProcessNew(r) ==
    LET patterns == LoadPatterns(store)
        m == FindMatchingPattern(r, patterns)
        pattern == IF m # 0 THEN UpdatePattern(patterns[m], r)
                   ELSE CreatePattern(r, store)
        result == IF Promotes(pattern) THEN [pattern EXCEPT !.status = READY]
                  ELSE pattern
        updated == IF m # 0 THEN [patterns EXCEPT ![m] = result]
                   ELSE Append(patterns, result)
    IN  /\ result.id \in PatternIds
        /\ queue' = IF Promotes(pattern) THEN AddToQueue(queue, result) ELSE queue
        /\ store' = SavePatterns(updated)
        /\ lastOp' = Op("process_new", r, result.id, TRUE, <<result.id>>, m # 0)

\* The loop of check_all_patterns over the loaded list, from pattern i on:
\* the list, the queue and the patterns promoted so far
RECURSIVE CheckFrom(_, _, _, _)
CheckFrom(ps, q, ready, i) ==
    IF i > Len(ps) THEN [patterns |-> ps, queue |-> q, ready |-> ready]
    ELSE IF ps[i].count >= GENERALIZATION_THRESHOLD
         THEN IF ps[i].status \notin {READY, GENERALIZED, DISMISSED}
              THEN LET p == [ps[i] EXCEPT !.status = READY]
                   IN  CheckFrom([ps EXCEPT ![i] = p], AddToQueue(q, p),
                                 Append(ready, p.id), i + 1)
              ELSE CheckFrom(ps, q, ready, i + 1)
         ELSE IF ps[i].status = READY
              THEN CheckFrom([ps EXCEPT ![i].status = TRACKING], q, ready, i + 1)
              ELSE CheckFrom(ps, q, ready, i + 1)

\* PatternAggregator.check_all_patterns
CheckAll ==
    LET res == CheckFrom(LoadPatterns(store), queue, <<>>, 1)
    IN  /\ store' = SavePatterns(res.patterns)
        /\ queue' = res.queue
        /\ lastOp' = Op("check_all", NoRef, 0, TRUE, res.ready, FALSE)

\* the first loaded pattern of that id, 0 if there is none
IndexOfId(ps, pid) ==
    IF \E i \in DOMAIN ps : ps[i].id = pid
    THEN CHOOSE i \in DOMAIN ps : ps[i].id = pid /\ \A j \in DOMAIN ps : ps[j].id = pid => i <= j
    ELSE 0

\* mark_generalized with the save and the removal after the loop instead of
\* inside the test for the id
MarkGeneralizedUnguarded(pid) ==
    LET patterns == LoadPatterns(store)
        i == IndexOfId(patterns, pid)
    IN  /\ store' = SavePatterns(IF i # 0 THEN [patterns EXCEPT ![i].status = GENERALIZED]
                                 ELSE patterns)
        /\ queue' = RemoveFromQueue(queue, pid)
        /\ lastOp' = Op("mark_generalized", NoRef, pid, i # 0, <<>>, FALSE)

\* PatternAggregator.mark_generalized
MarkGeneralized(pid) ==
    LET patterns == LoadPatterns(store)
        i == IndexOfId(patterns, pid)
    IN  IF i # 0
        THEN /\ store' = SavePatterns([patterns EXCEPT ![i].status = GENERALIZED])
             /\ queue' = RemoveFromQueue(queue, pid)
             /\ lastOp' = Op("mark_generalized", NoRef, pid, TRUE, <<>>, FALSE)
        ELSE /\ UNCHANGED <<store, queue>>
             /\ lastOp' = Op("mark_generalized", NoRef, pid, FALSE, <<>>, FALSE)

\* dismiss_pattern, lines 166-169: the status and the note on the loaded pattern
Dismissed(p, reason) ==
    [p EXCEPT !.status = DISMISSED, !.notes = Append(p.notes, reason)]

\* PatternAggregator.dismiss_pattern
Dismiss(pid, reason) ==
    LET patterns == LoadPatterns(store)
        i == IndexOfId(patterns, pid)
    IN  IF i # 0
        THEN /\ store' = SavePatterns([patterns EXCEPT ![i] = Dismissed(patterns[i], reason)])
             /\ queue' = RemoveFromQueue(queue, pid)
             /\ lastOp' = Op("dismiss", NoRef, pid, TRUE, <<reason>>, FALSE)
        ELSE /\ UNCHANGED <<store, queue>>
             /\ lastOp' = Op("dismiss", NoRef, pid, FALSE, <<reason>>, FALSE)

\* RefinementPersistence.save_refinement, steps 3 and 4 (steps 1 and 2 write
\* the suggested-refinements and history documents)
SaveRefinement(r) ==
    LET patterns == PersistenceLoad(store)
        m == PersistenceFind(r, patterns)
        pattern == IF m # 0 THEN PersistenceUpdate(patterns[m], r)
                   ELSE PersistenceCreate(r, store)
        updated == IF m # 0 THEN [patterns EXCEPT ![m] = pattern]
                   ELSE Append(patterns, pattern)
        queued == pattern.count >= GENERALIZATION_THRESHOLD
    IN  /\ pattern.id \in PatternIds
        /\ queued => Len(queue.entries) < MaxQueueLen
        /\ store' = PersistenceSave(updated)
        /\ queue' = IF queued THEN PersistenceAddToQueue(queue, pattern) ELSE queue
        /\ lastOp' = Op("save_refinement", r, pattern.id, TRUE, <<pattern.id>>, m # 0)

----------------------------------------------------------------------------
(* Specifications *)

NoOp == Op("init", NoRef, 0, TRUE, <<>>, FALSE)

\* After construction on a fresh directory: ensure_user_refinements_dir
\* (persistence.py:27-50) writes the templates, which hold no entry.
Init ==
    /\ store = <<>>
    /\ queue = QueueTemplate
    /\ lastOp = NoOp

Next ==
    \/ \E r \in Refinements : ProcessNew(r)
    \/ CheckAll
    \/ \E pid \in PatternIds : MarkGeneralized(pid)
    \/ \E pid \in PatternIds, reason \in Reasons : Dismiss(pid, reason)
    \/ \E r \in Refinements : SaveRefinement(r)

Spec == Init /\ [][Next]_vars

----------------------------------------------------------------------------
(* A store found at construction.  The documents are markdown files the     *)
(* user reads and edits, and construction keeps the files it finds          *)
(* (persistence.py:37-48).  An entry is either as the engine writes it or   *)
(* hand-marked: its header carries the tracking marker cut to its first     *)
(* character, and it is a tracking entry.  The documents satisfy the        *)
(* invariants of the data model: a count equal to the number of refinement  *)
(* ids, TRACKING with one refinement, the status sections in the order the  *)
(* engine writes them, a queue entry for each READY pattern.                *)

HandIcon == <<StatusIcons[TRACKING][1]>>

\* refinement ids recorded before this run
EarlierRefs(id) == IF id = 1 THEN <<"H1", "H2">> ELSE <<"H3", "H4">>

SeedTarget(id) == IF id = 1 THEN <<"hooks", "/", "x">> ELSE <<"hooks">>

SeedEntry(id, icon, st) ==
    [icon |-> icon,
     id |-> id,
     name |-> <<"hook", "-">> \o Join(SplitOn(SeedTarget(id), {"/"}), "-")
                \o <<"-", "allow", "-", "tests">>,
     count |-> IF st = TRACKING THEN 1 ELSE 2,
     status |-> st,
     skills |-> <<"s1">>,
     desc |-> SeedTarget(id) \o <<":", " ", "allow", " ", "tests">>,
     projects |-> IF id = 1 THEN <<"p1">> ELSE <<>>,
     refs |-> IF st = TRACKING THEN <<IF id = 1 THEN "R1" ELSE "R2">>
              ELSE EarlierRefs(id)]

HandMarked(id) == SeedEntry(id, HandIcon, TRACKING)
Written(id, st) == SeedEntry(id, StatusIcons[st], st)

EditedStores ==
    {<<HandMarked(1)>>,
     <<HandMarked(1), HandMarked(2)>>,
     <<HandMarked(1), Written(2, TRACKING)>>,
     <<Written(1, TRACKING), HandMarked(2)>>,
     <<Written(2, READY), HandMarked(1)>>,
     <<Written(1, READY), HandMarked(2)>>,
     <<HandMarked(2), Written(1, GENERALIZED)>>,
     <<HandMarked(2), Written(1, DISMISSED)>>}

RECURSIVE ReadyEntries(_)
ReadyEntries(doc) ==
    IF doc = <<>> THEN <<>>
    ELSE ReadyEntries(Tail(doc))
         \o (IF doc[1].status = READY
             THEN <<[id |-> doc[1].id, count |-> doc[1].count, skills |-> doc[1].skills]>>
             ELSE <<>>)

EditedInit ==
    /\ store \in EditedStores
    /\ queue = [entries |-> ReadyEntries(store), tail |-> TRUE]
    /\ lastOp = NoOp

SpecEdited == EditedInit /\ [][Next]_vars

----------------------------------------------------------------------------
(* What the documents say *)

StoredIds(doc) == {doc[i].id : i \in DOMAIN doc}

StoredWithStatus(doc, st) == {doc[i].id : i \in {j \in DOMAIN doc : doc[j].status = st}}

\* count == number of distinct refinement ids, for every entry of the store
CountMatchesRefs(doc) ==
    \A i \in DOMAIN doc : doc[i].count = Cardinality(Range(doc[i].refs))

\* the queue holds an entry for exactly the READY patterns of the store
QueueInSync(doc, q) == QueueIds(q) = StoredWithStatus(doc, READY)

LifecycleOps == {"process_new", "check_all", "mark_generalized", "dismiss"}

\* an entry of the store is kept: the same id, status, count and refinement ids
Kept(e, doc) ==
    \E i \in DOMAIN doc :
        /\ doc[i].id = e.id
        /\ doc[i].status = e.status
        /\ doc[i].count = e.count
        /\ doc[i].refs = e.refs

----------------------------------------------------------------------------
(* Claims *)

\* C1: a process_new call on a store in which every pattern's count equals
\* the number of its distinct refinement ids leaves such a store, also when
\* the refinement's id is already recorded on the pattern it matches.
C1_CountEqualsDistinctRefs ==
    [][(lastOp'.op = "process_new" /\ CountMatchesRefs(store))
            => CountMatchesRefs(store')]_vars

\* C2: after every completed lifecycle operation (process_new, check_all,
\* mark_generalized, dismiss) the ids with a queue entry are the ids of the
\* stored patterns whose status is READY.
C2_QueueHoldsExactlyReady ==
    [][(lastOp'.op \in LifecycleOps /\ QueueInSync(store, queue))
            => QueueInSync(store', queue')]_vars

\* C3: process_new, save_refinement and check_all leave every GENERALIZED or
\* DISMISSED pattern as it is stored (status, count, refinement ids) and do
\* not add it to the queue.
C3_TerminalNeverReopened ==
    [][lastOp'.op \in {"process_new", "save_refinement", "check_all"}
            => \A i \in DOMAIN store :
                    store[i].status \in {GENERALIZED, DISMISSED}
                        => /\ Kept(store[i], store')
                           /\ (store[i].id \notin QueueIds(queue)
                                    => store[i].id \notin QueueIds(queue'))]_vars


RoundTripView(x) ==
    [id |-> x.id, status |-> x.status, count |-> x.count,
     skills |-> Range(x.skills), projects |-> Range(x.projects), refs |-> x.refs]

Saved(op) ==
    \/ op.op \in {"process_new", "check_all"}
    \/ op.op \in {"mark_generalized", "dismiss"} /\ op.ok

\* C5: loading the document that save wrote returns the patterns saved, equal
\* on id, status, count, skill set, project set and refinement-id list.
C5_LoadReturnsWhatSaveWrote ==
    Saved(lastOp)
        => {RoundTripView(x) : x \in Range(LoadPatterns(store))}
                = {RoundTripView(e) : e \in Range(store)}

StatusById(doc) == {<<doc[i].id, doc[i].status>> : i \in DOMAIN doc}

\* C6: a check_all that follows a check_all changes no pattern's status and
\* no queue membership, and returns an empty list.
C6_CheckAllIdempotent ==
    [][(lastOp.op = "check_all" /\ lastOp'.op = "check_all")
            => /\ StatusById(store') = StatusById(store)
               /\ QueueIds(queue') = QueueIds(queue)
               /\ lastOp'.out = <<>>]_vars

\* C7: mark_generalized and dismiss with an id no stored pattern has return
\* False and leave the store and the queue unchanged.
C7_UnknownIdFails ==
    [][(lastOp'.op \in {"mark_generalized", "dismiss"} /\ lastOp'.pid \notin StoredIds(store))
            => /\ lastOp'.ok = FALSE
               /\ store' = store
               /\ queue' = queue]_vars

\* C7 witness: an unknown id was refused while the store held patterns the
\* loader finds and the queue held entries
C7_Witness ==
    /\ lastOp.op \in {"mark_generalized", "dismiss"}
    /\ ~lastOp.ok
    /\ lastOp.pid \notin StoredIds(store)
    /\ LoadPatterns(store) # <<>>
    /\ queue.entries # <<>>

TerminalOf(op) == IF op = "mark_generalized" THEN GENERALIZED ELSE DISMISSED

\* C8: after a successful mark_generalized(id) (dismiss(id, reason)) the
\* stored pattern id is GENERALIZED (DISMISSED), the queue holds no entry for
\* id, and every other pattern keeps its status, count and refinement ids.
C8_TerminalTransitionExact ==
    [][(lastOp'.op \in {"mark_generalized", "dismiss"} /\ lastOp'.ok)
            => /\ \E i \in DOMAIN store' :
                    store'[i].id = lastOp'.pid /\ store'[i].status = TerminalOf(lastOp'.op)
               /\ lastOp'.pid \notin QueueIds(queue')
               /\ \A i \in DOMAIN store :
                    store[i].id # lastOp'.pid => Kept(store[i], store')]_vars

\* get_pattern_by_id: the first loaded pattern of that id, if any
GetPatternById(doc, pid) ==
    LET ps == LoadPatterns(doc)
        i == IndexOfId(ps, pid)
    IN  IF i = 0 THEN <<>> ELSE <<ps[i]>>

\* C9: after dismiss(id, reason) returned True, get_pattern_by_id(id) yields
\* a pattern whose notes hold the reason.
C9_DismissReasonPersisted ==
    (lastOp.op = "dismiss" /\ lastOp.ok)
        => LET found == GetPatternById(store, lastOp.pid)
           IN  found # <<>> /\ lastOp.out[1] \in Range(found[1].notes)

----------------------------------------------------------------------------
(* The queue operations on their own: the two _add_to_generalization_queue  *)
(* methods and _remove_from_queue applied to a queue document.              *)

QueuePatterns == {[id |-> i, count |-> c, skills |-> <<"s1">>] : i \in PatternIds, c \in {2, 3}}

\* queue documents with at most one entry per id
QueueDocs ==
    {[entries |-> es, tail |-> t] :
        es \in {<<>>} \cup {<<QueueEntry(x)>> : x \in QueuePatterns}
                \cup {<<QueueEntry(xy[1]), QueueEntry(xy[2])>> :
                        xy \in {z \in QueuePatterns \X QueuePatterns : z[1].id # z[2].id}},
        t \in BOOLEAN}

QueueAdd(p) ==
    /\ queue' = AddToQueue(queue, p)
    /\ lastOp' = Op("queue_add", NoRef, p.id, TRUE, <<p.count>>, FALSE)
    /\ UNCHANGED store

QueuePersistenceAdd(p) ==
    /\ Len(queue.entries) < MaxQueueLen
    /\ queue' = PersistenceAddToQueue(queue, p)
    /\ lastOp' = Op("persistence_queue_add", NoRef, p.id, TRUE, <<>>, FALSE)
    /\ UNCHANGED store

QueueRemove(pid) ==
    /\ queue' = RemoveFromQueue(queue, pid)
    /\ lastOp' = Op("queue_remove", NoRef, pid, TRUE, <<>>, FALSE)
    /\ UNCHANGED store

QueueInit ==
    /\ store = <<>>
    /\ queue \in QueueDocs
    /\ lastOp = NoOp

QueueNext ==
    \/ \E p \in QueuePatterns : QueueAdd(p)
    \/ \E p \in QueuePatterns : QueuePersistenceAdd(p)
    \/ \E pid \in PatternIds : QueueRemove(pid)

SpecQueue == QueueInit /\ [][QueueNext]_vars

EntriesOf(q, pid) == {i \in DOMAIN q.entries : q.entries[i].id = pid}

\* C10: after add(pattern) the queue holds exactly one entry for pattern.id,
\* whatever other ids are queued, and an add of a pattern that has an entry
\* changes nothing.
C10_QueueAddIdempotent ==
    [][lastOp'.op \in {"queue_add", "persistence_queue_add"}
            => /\ Cardinality(EntriesOf(queue', lastOp'.pid)) = 1
               /\ (lastOp'.pid \in QueueIds(queue) => queue' = queue)]_vars

\* C11: remove(pattern_id) deletes exactly the entries of pattern_id: the
\* other entries stay, in their order, and the rest of the document (the
\* sections that follow the entries) is unchanged, wherever the entry sits;
\* removing an id that has no entry changes nothing.
C11_RemoveExact ==
    [][lastOp'.op = "queue_remove"
            => /\ queue'.entries = SelectSeq(queue.entries, LAMBDA e : e.id # lastOp'.pid)
               /\ queue'.tail = queue.tail
               /\ (lastOp'.pid \notin QueueIds(queue) => queue' = queue)]_vars

\* C12: the priority on a queue entry is derived from the count of its
\* pattern: after the engine has queued a pattern at its current count (as
\* process_new does on every call that finds the count at or above the
\* threshold), the entry of that pattern says High when the count is >= 3 and
\* Medium otherwise.
C12_PriorityFollowsCount ==
    [][lastOp'.op = "queue_add"
            => \A i \in EntriesOf(queue', lastOp'.pid) :
                    Priority(queue'.entries[i])
                        = (IF lastOp'.out[1] >= 3 THEN "High" ELSE "Medium")]_vars

----------------------------------------------------------------------------
(* The matcher on its own: _find_matching_pattern applied to a refinement   *)
(* and a list of patterns in memory.                                        *)

\* descriptions of the candidate patterns
CandidateKinds ==
    {[skills |-> <<"s1">>, desc |-> <<"hooks", "/", "x", ":", " ", "allow", " ", "tests">>],
     [skills |-> <<"s1">>, desc |-> <<"hooks", ":", " ", "deny", " ", "all">>],
     [skills |-> <<"s2">>, desc |-> <<"hooks", ":", " ", "allow", " ", "tests">>]}

Candidate(id, k, st) ==
    [id |-> id, name |-> <<"hook">>, desc |-> k.desc, skills |-> k.skills,
     refs |-> <<"H1">>, projects |-> <<>>, count |-> 1, status |-> st, notes |-> <<>>]

\* lists of one or two patterns, numbered in list order
CandidateLists ==
    {<<Candidate(1, k, st)>> : k \in CandidateKinds, st \in PatternStatus}
        \cup {<<Candidate(1, k[1], st[1]), Candidate(2, k[2], st[2])>> :
                k \in CandidateKinds \X CandidateKinds,
                st \in PatternStatus \X PatternStatus}

\* the arguments of a call about to be made
MatchInit ==
    /\ store = <<>>
    /\ queue = QueueTemplate
    /\ lastOp \in {Op("match_input", r, 0, FALSE, ps, FALSE) :
                        r \in Refinements, ps \in CandidateLists}

\* the call of _find_matching_pattern: the arguments and the pattern returned
FindMatch ==
    /\ lastOp.op = "match_input"
    /\ LET ps == lastOp.out
           m == FindMatchingPattern(lastOp.ref, ps)
       IN  lastOp' = Op("find_matching", lastOp.ref,
                        IF m # 0 THEN ps[m].id ELSE 0, m # 0, ps, m # 0)
    /\ UNCHANGED <<store, queue>>

MatchNext == FindMatch

SpecMatch == MatchInit /\ [][MatchNext]_vars

\* the score of the refinement of the call against candidate i of the call
ScoreAt(i) == CalculateSimilarity(lastOp.ref, lastOp.out[i])

Eligible(i) ==
    /\ lastOp.out[i].status \notin {GENERALIZED, DISMISSED}
    /\ ScoreAt(i) >= 600

\* C13: the matcher returns the first pattern of the list that is not
\* GENERALIZED or DISMISSED and scores at or above 0.6, whatever the patterns
\* after it score, and no pattern when none is eligible.
C13_FirstEligibleMatch ==
    lastOp.op = "find_matching"
        => IF \E i \in DOMAIN lastOp.out : Eligible(i)
           THEN /\ lastOp.ok
                /\ \E i \in DOMAIN lastOp.out :
                        /\ Eligible(i)
                        /\ \A j \in 1..(i - 1) : ~Eligible(j)
                        /\ lastOp.pid = lastOp.out[i].id
           ELSE ~lastOp.ok

\* C13 witness: the first pattern was returned on a score of exactly 0.6
\* while the non-terminal pattern after it scores higher
C13_Witness ==
    /\ lastOp.op = "find_matching"
    /\ lastOp.ok
    /\ Len(lastOp.out) = 2
    /\ lastOp.pid = lastOp.out[1].id
    /\ ScoreAt(1) = 600
    /\ ScoreAt(2) > 600
    /\ lastOp.out[2].status \notin {GENERALIZED, DISMISSED}

\* the stored patterns a refinement has to be attached to: not terminal, of
\* the refinement's skill and category (the category opens the name the
\* engine generates), with the refinement's target section in the description
DedupTargets(r, doc) ==
    {i \in DOMAIN doc :
        /\ doc[i].status \notin {GENERALIZED, DISMISSED}
        /\ r.skill \in Range(doc[i].skills)
        /\ doc[i].name # <<>> /\ doc[i].name[1] = r.category
        /\ r.target_section # <<>>
        /\ IsSubstr(r.target_section, doc[i].desc)}

\* C14: a refinement with the skill and the category of a stored non-terminal
\* pattern and a target section found in its description is attached to such
\* a pattern by process_new, whatever its expected and actual text: no new
\* pattern id appears in the store.
C14_DedupLaw ==
    [][(lastOp'.op = "process_new" /\ DedupTargets(lastOp'.ref, store) # {})
            => /\ lastOp'.matched
               /\ lastOp'.pid \in {store[i].id : i \in DedupTargets(lastOp'.ref, store)}
               /\ StoredIds(store') \subseteq StoredIds(store)]_vars

----------------------------------------------------------------------------
(* The write of the pattern document step by step.  _save_patterns ends in  *)
(* patterns_file.write_text(text) (aggregate_patterns.py:469): the file is   *)
(* opened for writing, which empties it, the text is written to it, and the *)
(* file is closed; a load reads the file with read_text (line 324) and no   *)
(* lock is held by either.  The text is written entry by entry here.        *)

\* the lists a save is called with in these runs
SaveLists == {ps \in CandidateLists : \A i \in DOMAIN ps : ps[i].status \in {TRACKING, READY}}

SaveDocs == {SavePatterns(ps) : ps \in SaveLists}

\* write_text opens the file with mode "w": the previous text is gone
SaveOpen(ps) ==
    /\ lastOp.op = "init"
    /\ store' = <<>>
    /\ lastOp' = Op("save_open", NoRef, 0, TRUE, <<store, SavePatterns(ps)>>, FALSE)
    /\ UNCHANGED queue

Writing == lastOp.op \in {"save_open", "save_write", "load"} /\ lastOp.pid = 0

\* the next part of the text reaches the file; pid 1 marks the write complete
SaveWrite ==
    /\ Writing
    /\ LET new == lastOp.out[2]
       IN  /\ store # new
           /\ store' = Append(store, new[Len(store) + 1])
           /\ lastOp' = Op("save_write", NoRef, IF store' = new THEN 1 ELSE 0, TRUE,
                           <<lastOp.out[1], new>>, FALSE)
    /\ UNCHANGED queue

\* the write fails part-way (the process is stopped, the disk is full): the
\* file keeps what had reached it
SaveFail ==
    /\ Writing
    /\ store # lastOp.out[2]
    /\ lastOp' = Op("save_failed", NoRef, 2, FALSE, <<lastOp.out[1], lastOp.out[2]>>, FALSE)
    /\ UNCHANGED <<store, queue>>

\* a load by another process: what read_text returns at this moment
LoadDuringSave ==
    /\ lastOp.op \in {"save_open", "save_write", "save_failed"}
    /\ lastOp' = Op("load", NoRef, lastOp.pid, lastOp.ok,
                    <<lastOp.out[1], lastOp.out[2], store>>, FALSE)
    /\ UNCHANGED <<store, queue>>

SaveInit ==
    /\ store \in SaveDocs
    /\ queue = QueueTemplate
    /\ lastOp = NoOp

SaveNext ==
    \/ \E ps \in SaveLists : SaveOpen(ps)
    \/ SaveWrite
    \/ SaveFail
    \/ LoadDuringSave

SpecSave == SaveInit /\ [][SaveNext]_vars

\* C15: a load that runs while a save is under way, or after a save that
\* failed part-way, observes the complete previous document or the complete
\* new one.
C15_SaveAtomic ==
    lastOp.op = "load" => lastOp.out[3] \in {lastOp.out[1], lastOp.out[2]}

\* a refinement with a mandatory field empty
Incomplete(r) ==
    \/ r.skill = ""
    \/ r.category = ""
    \/ r.target_section = <<>>
    \/ r.expected_behavior = <<>>
    \/ r.actual_behavior = <<>>

\* C16: process_new refuses a refinement that lacks a mandatory field: it
\* reports failure, and the store and the queue are as before the call.
C16_RejectsIncomplete ==
    [][(lastOp'.op = "process_new" /\ Incomplete(lastOp'.ref))
            => /\ ~lastOp'.ok
               /\ store' = store
               /\ queue' = queue]_vars

----------------------------------------------------------------------------
(* The loader on its own: _load_patterns applied to documents that hold     *)
(* well-formed entries, entries with a damaged header and entries with no   *)
(* Count line.                                                              *)

\* an entry of a document: tracking, one skill, its own refinement id and,
\* when it has a Projects line, its own project
LoadEntry(id, icon, count, withProjects) ==
    [icon |-> icon,
     id |-> id,
     name |-> <<"hook", "-", "hooks">>,
     count |-> count,
     status |-> TRACKING,
     skills |-> <<"s1">>,
     desc |-> <<"hooks", ":", " ", "allow", " ", "tests">>,
     projects |-> IF withProjects THEN <<(<<"pa", "pb", "pc">>)[id]>> ELSE <<>>,
     refs |-> <<(<<"Ra", "Rb", "Rc">>)[id]>>]

\* the entry at place id of a document: well-formed with and without a
\* Projects line, header damaged (the marker is gone), Count line missing
LoadEntries(id) ==
    {LoadEntry(id, HandIcon, 1, TRUE), LoadEntry(id, HandIcon, 1, FALSE),
     LoadEntry(id, <<>>, 1, TRUE), LoadEntry(id, HandIcon, 0, TRUE)}

LoadDocs ==
    {<<a>> : a \in LoadEntries(1)}
        \cup {<<a, b>> : a \in LoadEntries(1), b \in LoadEntries(2)}
        \cup {<<a, b, c>> : a \in LoadEntries(1), b \in LoadEntries(2), c \in LoadEntries(3)}

LoadInit ==
    /\ store \in LoadDocs
    /\ queue = QueueTemplate
    /\ lastOp = NoOp

\* one call of _load_patterns on the document
LoadDocument ==
    /\ lastOp.op = "init"
    /\ lastOp' = Op("load_patterns", NoRef, 0, TRUE, LoadPatterns(store), FALSE)
    /\ UNCHANGED <<store, queue>>

LoadNext == LoadDocument

SpecLoad == LoadInit /\ [][LoadNext]_vars

\* an entry with its header intact and its Count line present
WellFormed(e) == Recognised(e) /\ e.count >= 1

\* C17: the loader drops the entries that are malformed (a damaged header, a
\* missing Count line) and returns every well-formed entry with its own
\* count, skills, refinement ids and projects.
C17_LoadDropsOnlyMalformed ==
    lastOp.op = "load_patterns"
        => /\ \A k \in DOMAIN lastOp.out :
                \E i \in DOMAIN store :
                    WellFormed(store[i]) /\ store[i].id = lastOp.out[k].id
           /\ \A i \in DOMAIN store :
                WellFormed(store[i])
                    => \E k \in DOMAIN lastOp.out :
                            /\ lastOp.out[k].id = store[i].id
                            /\ lastOp.out[k].count = store[i].count
                            /\ lastOp.out[k].skills = store[i].skills
                            /\ lastOp.out[k].refs = store[i].refs
                            /\ lastOp.out[k].projects = store[i].projects

AllOps == {"process_new", "check_all", "mark_generalized", "dismiss", "save_refinement"}

\* C18: no operation deletes a pattern: every pattern id stored before an
\* operation is stored after it, and a GENERALIZED or DISMISSED pattern is
\* still stored under that status.
C18_NeverDeleted ==
    [][lastOp'.op \in AllOps
            => /\ StoredIds(store) \subseteq StoredIds(store')
               /\ \A i \in DOMAIN store :
                    store[i].status \in {GENERALIZED, DISMISSED}
                        => \E j \in DOMAIN store' :
                                store'[j].id = store[i].id /\ store'[j].status = store[i].status]_vars

\* the stored patterns that record refinement id x
HoldersOf(x, doc) == {i \in DOMAIN doc : x \in Range(doc[i].refs)}

\* C19: each refinement id is recorded on at most one stored pattern, after
\* any sequence of operations, the apply workflow (save_refinement followed by
\* process_new with the same refinement) and resubmissions included.
C19_RefOnOnePattern ==
    \A i \in DOMAIN store : \A x \in Range(store[i].refs) :
        Cardinality(HoldersOf(x, store)) <= 1

\* C20: process_new with a refinement the matcher attaches to no pattern adds
\* exactly one pattern, TRACKING with count 1, the refinement's id as its only
\* refinement id and the refinement's skill as its only skill; the queue and
\* every pattern stored before are unchanged.
C20_CreateOnNoMatch ==
    [][(lastOp'.op = "process_new" /\ ~lastOp'.matched)
            => /\ lastOp'.pid \notin StoredIds(store)
               /\ StoredIds(store') = StoredIds(store) \cup {lastOp'.pid}
               /\ \E j \in DOMAIN store' :
                    /\ store'[j].id = lastOp'.pid
                    /\ store'[j].status = TRACKING
                    /\ store'[j].count = 1
                    /\ store'[j].refs = <<lastOp'.ref.id>>
                    /\ Range(store'[j].skills) = {lastOp'.ref.skill}
               /\ queue' = queue
               /\ \A i \in DOMAIN store : Kept(store[i], store')]_vars

\* the category a pattern was created from: _generate_pattern_name opens the
\* name with it, and no other field of the pattern records it
NameCategory(p) == IF p.name = <<>> THEN "" ELSE p.name[1]

\* r2 is r with another category (and the project that comes with it)
SameButCategory(r, r2) ==
    /\ r2.category # r.category
    /\ r2.id = r.id
    /\ r2.skill = r.skill
    /\ r2.target_section = r.target_section
    /\ r2.expected_behavior = r.expected_behavior
    /\ r2.actual_behavior = r.actual_behavior

\* C21: against a pattern created from a refinement of category c, a
\* refinement of category c scores 0.2 more than the same refinement under
\* another category.
C21_CategoryAddsScore ==
    lastOp.op = "find_matching"
        => \A i \in DOMAIN lastOp.out : \A r2 \in Refinements :
                (NameCategory(lastOp.out[i]) = lastOp.ref.category
                        /\ SameButCategory(lastOp.ref, r2))
                    => ScoreAt(i) = CalculateSimilarity(r2, lastOp.out[i]) + 200

----------------------------------------------------------------------------
(* Two invocations of process_new_refinement at once.  Each reads the        *)
(* patterns document (line 73), works on its own list in memory, reading    *)
(* the document again for the next pattern id when it creates a pattern     *)
(* (get_pattern_id) and writing the queue when it promotes (line 90), and   *)
(* writes the patterns document (line 93).  No lock is taken.  The record   *)
(* of the last step carries the two invocations.                            *)

\* the refinements of the two invocations: any content, their own ids
RaceContents == {r \in Refinements : r.id = "R1"}

Invocation(r, id) ==
    [pc |-> "load", ref |-> [r EXCEPT !.id = id], loaded |-> <<>>, result |-> <<>>,
     pid |-> 0, matched |-> FALSE, early |-> FALSE, last |-> FALSE]

RaceInit ==
    /\ store \in {<<>>, <<HandMarked(1)>>}
    /\ queue = QueueTemplate
    /\ lastOp \in {Op("race_start", NoRef, 0, TRUE, <<Invocation(a, "A1"), Invocation(b, "B1")>>, FALSE) :
                        a \in RaceContents, b \in RaceContents}

RaceStep(name, k, inv) ==
    Op(name, inv.ref, inv.pid, TRUE, [lastOp.out EXCEPT ![k] = inv], inv.matched)

\* patterns = self._load_patterns(); early: the other invocation has not
\* saved yet
RaceLoad(k) ==
    /\ lastOp.out[k].pc = "load"
    /\ lastOp' = RaceStep("race_load", k,
                    [lastOp.out[k] EXCEPT !.pc = "prepare",
                                          !.loaded = LoadPatterns(store),
                                          !.early = lastOp.out[3 - k].pc # "done"])
    /\ UNCHANGED <<store, queue>>

\* lines 75-90 on the list in memory
RacePrepare(k) ==
    /\ lastOp.out[k].pc = "prepare"
    /\ LET inv == lastOp.out[k]
           patterns == inv.loaded
           m == FindMatchingPattern(inv.ref, patterns)
           pattern == IF m # 0 THEN UpdatePattern(patterns[m], inv.ref)
                      ELSE CreatePattern(inv.ref, store)
           result == IF Promotes(pattern) THEN [pattern EXCEPT !.status = READY]
                     ELSE pattern
           updated == IF m # 0 THEN [patterns EXCEPT ![m] = result]
                      ELSE Append(patterns, result)
       IN  /\ result.id \in PatternIds
           /\ queue' = IF Promotes(pattern) THEN AddToQueue(queue, result) ELSE queue
           /\ lastOp' = RaceStep("race_prepare", k,
                            [inv EXCEPT !.pc = "save", !.result = updated,
                                        !.pid = result.id, !.matched = m # 0])
    /\ UNCHANGED store

\* a save that adds its entries to the document it finds
RaceSaveAppending(k) ==
    /\ lastOp.out[k].pc = "save"
    /\ store' = store \o SavePatterns(lastOp.out[k].result)
    /\ lastOp' = RaceStep("race_save", k,
                    [lastOp.out[k] EXCEPT !.pc = "done",
                                          !.last = lastOp.out[3 - k].pc = "done"])
    /\ UNCHANGED queue

\* self._save_patterns(patterns); last: the other invocation has saved
RaceSave(k) ==
    /\ lastOp.out[k].pc = "save"
    /\ store' = SavePatterns(lastOp.out[k].result)
    /\ lastOp' = RaceStep("race_save", k,
                    [lastOp.out[k] EXCEPT !.pc = "done",
                                          !.last = lastOp.out[3 - k].pc = "done"])
    /\ UNCHANGED queue

RaceNext ==
    \E k \in {1, 2} :
        \/ RaceLoad(k)
        \/ RacePrepare(k)
        \/ RaceSave(k)

SpecRace == RaceInit /\ [][RaceNext]_vars

RaceDone == lastOp.op = "race_save" /\ \A k \in {1, 2} : lastOp.out[k].pc = "done"

\* the refinement ids the document records
RecordedRefs(doc) == UNION {Range(doc[i].refs) : i \in DOMAIN doc}

\* C22: when both invocations loaded before either saved, the document after
\* both is the one the later save wrote from its own list, and the
\* refinement of the earlier invocation is recorded nowhere in it.
C22_LostUpdate ==
    (RaceDone /\ lastOp.out[1].early /\ lastOp.out[2].early)
        => \E k \in {1, 2} :
                /\ lastOp.out[k].last
                /\ store = SavePatterns(lastOp.out[k].result)
                /\ lastOp.out[3 - k].ref.id \notin RecordedRefs(store)

\* C22 witness: both invocations loaded before either saved, both created a
\* pattern and gave it the same id, and the document holds one of the two
C22_Witness ==
    /\ RaceDone
    /\ lastOp.out[1].early /\ lastOp.out[2].early
    /\ ~lastOp.out[1].matched /\ ~lastOp.out[2].matched
    /\ lastOp.out[1].pid = lastOp.out[2].pid
    /\ Cardinality({i \in DOMAIN store : store[i].id = lastOp.out[1].pid}) = 1
    /\ Cardinality(RecordedRefs(store) \cap {"A1", "B1"}) = 1


\* x is in the list once: put after the entries there were if it was not
\* among them
AddedOnce(old, new, x) == new = IF x \in Range(old) THEN old ELSE Append(old, x)

\* C23: a process_new call that matches stored pattern P leaves P with its
\* count one higher, the refinement's id after the ids P had, the
\* refinement's skill and non-empty project in P's lists once, and every
\* other stored pattern as it was; it stores no new pattern.
C23_MatchUpdatesInPlace ==
    [][(lastOp'.op = "process_new" /\ lastOp'.matched)
            => /\ StoredIds(store') = StoredIds(store)
               /\ Len(store') = Len(store)
               /\ \A i \in DOMAIN store :
                    IF store[i].id = lastOp'.pid
                    THEN \E j \in DOMAIN store' :
                            /\ store'[j].id = lastOp'.pid
                            /\ store'[j].count = store[i].count + 1
                            /\ AddedOnce(store[i].refs, store'[j].refs, lastOp'.ref.id)
                            /\ AddedOnce(store[i].skills, store'[j].skills, lastOp'.ref.skill)
                            /\ IF lastOp'.ref.project = ""
                               THEN store'[j].projects = store[i].projects
                               ELSE AddedOnce(store[i].projects, store'[j].projects,
                                              lastOp'.ref.project)
                    ELSE Kept(store[i], store')]_vars


----------------------------------------------------------------------------
(* The four operations of the aggregator on a store found at construction   *)
(* in which entries of every status are hand-marked: the header carries a   *)
(* one-character marker and the Status line says what the entry was.        *)

Marked(id, st) == SeedEntry(id, HandIcon, st)

MarkedStores ==
    {<<Marked(1, READY)>>,
     <<Marked(1, GENERALIZED), HandMarked(2)>>,
     <<Marked(1, DISMISSED), Marked(2, READY)>>}

MarkedInit ==
    /\ store \in MarkedStores
    /\ queue = [entries |-> ReadyEntries(store), tail |-> TRUE]
    /\ lastOp = NoOp

AggregatorNext ==
    \/ \E r \in Refinements : ProcessNew(r)
    \/ CheckAll
    \/ \E pid \in PatternIds : MarkGeneralized(pid)
    \/ \E pid \in PatternIds, reason \in Reasons : Dismiss(pid, reason)

SpecMarked == MarkedInit /\ [][AggregatorNext]_vars

\* check_all_patterns, lines 112-115: the demotion branch is taken for a
\* pattern of the loaded list
Demotes(ps) ==
    \E i \in DOMAIN ps : ps[i].count < GENERALIZATION_THRESHOLD /\ ps[i].status = READY

\* C24: no operation lowers the count of a stored pattern, no stored READY
\* pattern has a count below the threshold, and the list check_all would load
\* holds no pattern for which it takes the demotion branch.
C24_DemotionNeverFires ==
    /\ [](\A i \in DOMAIN store :
            store[i].status = READY => store[i].count >= GENERALIZATION_THRESHOLD)
    /\ [](~Demotes(LoadPatterns(store)))
    /\ [][\A i \in DOMAIN store : \A j \in DOMAIN store' :
            store'[j].id = store[i].id => store'[j].count >= store[i].count]_vars

\* C24 witness: check_all has run on a loaded list and left a READY pattern
\* at the threshold in the store
C24_Witness ==
    /\ lastOp.op = "check_all"
    /\ \E i \in DOMAIN store :
            /\ store[i].status = READY
            /\ store[i].count = GENERALIZATION_THRESHOLD
            /\ store[i].id \in QueueIds(queue)


\* the ids stored with another status before the step and READY after it
Promoted(before, after) ==
    {before[i].id : i \in {k \in DOMAIN before :
        /\ before[k].status # READY
        /\ \E j \in DOMAIN after : after[j].id = before[k].id /\ after[j].status = READY}}

\* C25: check_all makes READY only patterns stored TRACKING with a count of
\* at least the threshold, each of them has a queue entry afterwards, the
\* list it returns holds exactly them, and a stored GENERALIZED or DISMISSED
\* pattern keeps its status.
C25_CheckAllPromotesTracking ==
    [][lastOp'.op = "check_all"
            => /\ \A i \in DOMAIN store :
                    store[i].id \in Promoted(store, store')
                        => /\ store[i].status = TRACKING
                           /\ store[i].count >= GENERALIZATION_THRESHOLD
                           /\ store[i].id \in QueueIds(queue')
               /\ Range(lastOp'.out) = Promoted(store, store')
               /\ \A i \in DOMAIN store : \A j \in DOMAIN store' :
                    (store[i].status \in {GENERALIZED, DISMISSED} /\ store'[j].id = store[i].id)
                        => store'[j].status = store[i].status]_vars


\* C26: after process_new returned pattern P, get_pattern_by_id finds P with
\* the status and count stored, so the matcher of a following process_new has
\* P among its candidates; every stored entry has a header load recognises, as
\* an entry of the status stored, and load returns as many patterns as the
\* document holds.
C26_PersistedIsLoaded ==
    lastOp.op = "process_new"
        => /\ \E i \in DOMAIN store :
                /\ store[i].id = lastOp.pid
                /\ GetPatternById(store, lastOp.pid) # <<>>
                /\ GetPatternById(store, lastOp.pid)[1].status = store[i].status
                /\ GetPatternById(store, lastOp.pid)[1].count = store[i].count
           /\ \A i \in DOMAIN store :
                Recognised(store[i]) /\ IconStatus(store[i].icon) = store[i].status
           /\ Len(LoadPatterns(store)) = Len(store)


----------------------------------------------------------------------------
(* An aggregator constructed with a refinements directory of its own         *)
(* (aggregate_patterns.py:56-60): store and queue are the documents of that  *)
(* directory.  get_pattern_id (persistence.py:72) reads the patterns         *)
(* document of the default directory, which ensure_user_refinements_dir      *)
(* wrote as a template and no operation of this aggregator writes.           *)

DefaultDirPatterns == <<>>

\* PatternAggregator.process_new_refinement, the directory given
ProcessNewInDir(r) ==
    LET patterns == LoadPatterns(store)
        m == FindMatchingPattern(r, patterns)
        pattern == IF m # 0 THEN UpdatePattern(patterns[m], r)
                   ELSE CreatePattern(r, DefaultDirPatterns)
        result == IF Promotes(pattern) THEN [pattern EXCEPT !.status = READY]
                  ELSE pattern
        updated == IF m # 0 THEN [patterns EXCEPT ![m] = result]
                   ELSE Append(patterns, result)
    IN  /\ result.id \in PatternIds
        /\ queue' = IF Promotes(pattern) THEN AddToQueue(queue, result) ELSE queue
        /\ store' = SavePatterns(updated)
        /\ lastOp' = Op("process_new", r, result.id, TRUE, <<result.id>>, m # 0)

DirInit ==
    /\ store \in {<<>>} \cup EditedStores
    /\ queue = [entries |-> ReadyEntries(store), tail |-> TRUE]
    /\ lastOp = NoOp

DirNext ==
    \/ \E r \in Refinements : ProcessNewInDir(r)
    \/ \E pid \in PatternIds : MarkGeneralized(pid)
    \/ \E pid \in PatternIds, reason \in Reasons : Dismiss(pid, reason)

SpecDir == DirInit /\ [][DirNext]_vars

\* C27: a pattern process_new creates gets an id no stored pattern has, and
\* no two entries of the store have the same id, also for an aggregator
\* constructed with a refinements directory of its own.
C27_PatternIdsUnique ==
    /\ [](\A i \in DOMAIN store : \A j \in DOMAIN store :
            store[i].id = store[j].id => i = j)
    /\ [][(lastOp'.op = "process_new" /\ ~lastOp'.matched)
            => lastOp'.pid \notin StoredIds(store)]_vars


\* candidate i of the call is not terminal, has the skill of the refinement,
\* and the refinement's target section, not empty, is part of its description
SkillAndTarget(i) ==
    /\ lastOp.out[i].status \notin {GENERALIZED, DISMISSED}
    /\ lastOp.ref.skill \in Range(lastOp.out[i].skills)
    /\ lastOp.ref.target_section # <<>>
    /\ IsSubstr(lastOp.ref.target_section, lastOp.out[i].desc)

C29_TerminalOpsOnAnyStatus ==
    [][(lastOp'.op \in {"mark_generalized", "dismiss"} /\ lastOp'.pid \in StoredIds(store))
            => /\ lastOp'.ok
               /\ \E j \in DOMAIN store' :
                    store'[j].id = lastOp'.pid /\ store'[j].status = TerminalOf(lastOp'.op)
               /\ \A i \in DOMAIN store : \A j \in DOMAIN store' :
                    (store[i].status \in {GENERALIZED, DISMISSED} /\ store'[j].id = store[i].id)
                        => store'[j].status \in {GENERALIZED, DISMISSED}]_vars


----------------------------------------------------------------------------
(* The operations of the aggregator write by write.  Each writes two        *)
(* documents, the queue and the store, one after the other; the record of   *)
(* the last step carries what the operation holds in memory between the     *)
(* two, and an operation may stop there.                                    *)

Between == {"process_new_queued", "check_all_queued", "mark_generalized_saved", "dismiss_saved"}

Underway(name, r, pid, out, matched) == Op(name, r, pid, FALSE, out, matched)

StepStores ==
    {<<>>,
     <<HandMarked(1)>>,
     <<Marked(1, READY)>>,
     <<Written(1, READY), HandMarked(2)>>,
     <<Marked(1, DISMISSED), Marked(2, READY)>>}

StepInit ==
    /\ store \in StepStores
    /\ queue = [entries |-> ReadyEntries(store), tail |-> TRUE]
    /\ lastOp = NoOp

\* process_new_refinement with the store written before the queue
ProcessNewStoreFirst(r) ==
    /\ lastOp.op \notin Between
    /\ LET patterns == LoadPatterns(store)
           m == FindMatchingPattern(r, patterns)
           pattern == IF m # 0 THEN UpdatePattern(patterns[m], r)
                      ELSE CreatePattern(r, store)
           result == IF Promotes(pattern) THEN [pattern EXCEPT !.status = READY]
                     ELSE pattern
           updated == IF m # 0 THEN [patterns EXCEPT ![m] = result]
                      ELSE Append(patterns, result)
       IN  /\ result.id \in PatternIds
           /\ store' = SavePatterns(updated)
           /\ lastOp' = Underway("process_new_queued", r, result.id, updated, m # 0)
    /\ UNCHANGED queue

\* process_new_refinement, lines 73-90: up to the write of the queue
ProcessNewQueue(r) ==
    /\ lastOp.op \notin Between
    /\ LET patterns == LoadPatterns(store)
           m == FindMatchingPattern(r, patterns)
           pattern == IF m # 0 THEN UpdatePattern(patterns[m], r)
                      ELSE CreatePattern(r, store)
           result == IF Promotes(pattern) THEN [pattern EXCEPT !.status = READY]
                     ELSE pattern
           updated == IF m # 0 THEN [patterns EXCEPT ![m] = result]
                      ELSE Append(patterns, result)
       IN  /\ result.id \in PatternIds
           /\ queue' = IF Promotes(pattern) THEN AddToQueue(queue, result) ELSE queue
           /\ lastOp' = Underway("process_new_queued", r, result.id, updated, m # 0)
    /\ UNCHANGED store

\* process_new_refinement, line 93
ProcessNewSave ==
    /\ lastOp.op = "process_new_queued"
    /\ store' = SavePatterns(lastOp.out)
    /\ lastOp' = Op("process_new", lastOp.ref, lastOp.pid, TRUE, <<lastOp.pid>>, lastOp.matched)
    /\ UNCHANGED queue

\* check_all_patterns, lines 104-115: the loop, which writes the queue
CheckAllQueue ==
    /\ lastOp.op \notin Between
    /\ LET res == CheckFrom(LoadPatterns(store), queue, <<>>, 1)
       IN  /\ queue' = res.queue
           /\ lastOp' = Underway("check_all_queued", NoRef, 0, <<res.patterns, res.ready>>, FALSE)
    /\ UNCHANGED store

\* check_all_patterns, lines 117-118
CheckAllSave ==
    /\ lastOp.op = "check_all_queued"
    /\ store' = SavePatterns(lastOp.out[1])
    /\ lastOp' = Op("check_all", NoRef, 0, TRUE, lastOp.out[2], FALSE)
    /\ UNCHANGED queue

\* mark_generalized, lines 143-147, and dismiss_pattern, lines 163-171: up
\* to the save of the store; False when no loaded pattern has the id
TerminalSave(name, pid, reason) ==
    /\ lastOp.op \notin Between
    /\ LET patterns == LoadPatterns(store)
           i == IndexOfId(patterns, pid)
       IN  IF i # 0
           THEN /\ store' = SavePatterns(
                        [patterns EXCEPT ![i] = IF name = "dismiss"
                                                THEN Dismissed(patterns[i], reason)
                                                ELSE [patterns[i] EXCEPT !.status = GENERALIZED]])
                /\ lastOp' = Underway(IF name = "dismiss" THEN "dismiss_saved"
                                      ELSE "mark_generalized_saved", NoRef, pid, <<>>, FALSE)
           ELSE /\ UNCHANGED store
                /\ lastOp' = Op(name, NoRef, pid, FALSE, <<>>, FALSE)
    /\ UNCHANGED queue

\* mark_generalized, lines 148-149, and dismiss_pattern, lines 172-173
TerminalRemove ==
    /\ lastOp.op \in {"mark_generalized_saved", "dismiss_saved"}
    /\ queue' = RemoveFromQueue(queue, lastOp.pid)
    /\ lastOp' = Op(IF lastOp.op = "dismiss_saved" THEN "dismiss" ELSE "mark_generalized",
                    NoRef, lastOp.pid, TRUE, <<>>, FALSE)
    /\ UNCHANGED store

\* the operation ends between its two writes
Stop ==
    /\ lastOp.op \in Between
    /\ lastOp' = Op("stopped", NoRef, lastOp.pid, FALSE, <<>>, FALSE)
    /\ UNCHANGED <<store, queue>>

StepNext ==
    \/ \E r \in Refinements : ProcessNewQueue(r)
    \/ ProcessNewSave
    \/ CheckAllQueue
    \/ CheckAllSave
    \/ \E pid \in PatternIds : TerminalSave("mark_generalized", pid, "")
    \/ \E pid \in PatternIds, reason \in Reasons : TerminalSave("dismiss", pid, reason)
    \/ TerminalRemove
    \/ Stop

SpecSteps == StepInit /\ [][StepNext]_vars

\* C30: between the two writes of an operation as after it, and after an
\* operation that stopped between them, every pattern stored READY has a
\* queue entry.
C30_ReadyStoredIsQueued ==
    StoredWithStatus(store, READY) \subseteq QueueIds(queue)

\* C30 witness: process_new stopped after it wrote the queue entry of the
\* pattern it promoted and before it saved the store, which holds the pattern
\* as TRACKING
C30_Witness ==
    /\ lastOp.op = "stopped"
    /\ lastOp.pid \in QueueIds(queue)
    /\ lastOp.pid \in StoredWithStatus(store, TRACKING)
    /\ lastOp.pid \notin StoredWithStatus(store, READY)

====
